---------------------------- MODULE Spec2Model ----------------------------
(***************************************************************************)
(* Suraksha-AI backend (src/backend/app.py): the three Flask handlers      *)
(* /analyze, /vault-analyze and /scan-file, the entropy helper and the two *)
(* Gemini explanation helpers, as a state machine of concurrently served   *)
(* requests.                                                               *)
(*                                                                         *)
(* Text is modelled as a sequence of tokens (each token a fixed run of     *)
(* characters); str.strip, str.lower, the substring tests and the two      *)
(* regular expressions are computed on the token sequence.  The token      *)
(* vocabulary is chosen so that no keyword of the source can arise across  *)
(* a token boundary, which makes token-level matching equal to the         *)
(* character-level matching of the source.                                 *)
(*                                                                         *)
(* A file body is modelled by its byte histogram restricted to dyadic      *)
(* frequencies: hist[a] is the number of distinct byte values that each    *)
(* make up 2^-a of the file.  For such files every term p*log2(p) and the  *)
(* running sum are exact in binary floating point, so calculate_entropy    *)
(* is computed exactly, in units of 1/256 bit, and then rounded to two     *)
(* decimals the way Python's round does (half to even).  Entropy values    *)
(* are carried as integers in hundredths of a bit (7.6 is 760).            *)
(***************************************************************************)
EXTENDS Integers, Sequences, FiniteSets, TLC

VARIABLES pc, request, locals, response, gemini, used

vars == <<pc, request, locals, response, gemini, used>>

----------------------------------------------------------------------------
(* Bounds of the model *)

NumRequests == 2
MaxWords == 3
MaxSplit == 1

Reqs == 1..NumRequests

----------------------------------------------------------------------------
(* Text: tokens, strip, lower, substring and regex matching *)

WhitespaceTokens == {" "}

\* tokens made only of \w characters
WordTokens == {"urgent", "URGENT", "verify", "now", "account", "bank", "otp",
               "OTP", "your", "login", "at", "enter", "Hi", "hi", "lunch",
               "1pm", "act"}

\* tokens of [\w.-] characters holding a dot that has a character before it
\* and a \w character after it
DomainTokens == {"x.co"}

SchemeTokens == {"http://"}

BaseVocab == {" ", "URGENT", "verify", "now", "account", "bank", "otp",
              "http://", "x.co", "@"}

\* str.lower on one token
LowerToken(t) ==
    CASE t = "URGENT" -> "urgent"
      [] t = "OTP" -> "otp"
      [] t = "Hi" -> "hi"
      [] OTHER -> t

lower(s) == [i \in 1..Len(s) |-> LowerToken(s[i])]

RECURSIVE lstrip(_)
lstrip(s) ==
    IF s # <<>> /\ Head(s) \in WhitespaceTokens THEN lstrip(Tail(s)) ELSE s

RECURSIVE rstrip(_)
rstrip(s) ==
    IF s # <<>> /\ s[Len(s)] \in WhitespaceTokens
    THEN rstrip(SubSeq(s, 1, Len(s) - 1))
    ELSE s

strip_none(s) == s

strip(s) == rstrip(lstrip(s))

\* the Python test `w in text` for a keyword w
Contains(text, w) ==
    \E i \in 1..(Len(text) - Len(w) + 1) : SubSeq(text, i, i + Len(w) - 1) = w

any_in(text, words) == \E w \in words : Contains(text, w)

UrgentWords == {<<"urgent">>, <<"immediately">>, <<"act", " ", "now">>,
                <<"verify", " ", "now">>}

ImpersonationWords == {<<"bank">>, <<"paypal">>, <<"government">>,
                       <<"admin">>, <<"amazon">>}

CredentialWords == {<<"otp">>, <<"password">>, <<"login">>,
                    <<"verify", " ", "account">>}

\* re.search(r"https?://\S+", text): the scheme followed by one non-space
search_link(text) ==
    \E i \in 1..(Len(text) - 1) :
        text[i] \in SchemeTokens /\ text[i + 1] \notin WhitespaceTokens

\* re.search(r"[\w\.-]+@[\w\.-]+\.\w+", text)
search_email(text) ==
    \E i \in 2..Len(text) :
        /\ text[i] = "@"
        /\ text[i - 1] \in WordTokens \cup DomainTokens
        /\ \E j \in (i + 1)..Len(text) :
              /\ text[j] \in DomainTokens
              /\ \A k \in (i + 1)..(j - 1) :
                    text[k] \in WordTokens \cup DomainTokens

extract_signals(text) ==
    [suspicious_link       |-> search_link(text),
     email_address_present |-> search_email(text),
     urgent_language       |-> any_in(text, UrgentWords),
     impersonation         |-> any_in(text, ImpersonationWords),
     credential_request    |-> any_in(text, CredentialWords)]

SignalKeys == <<"suspicious_link", "email_address_present", "urgent_language",
                "impersonation", "credential_request">>

\* k.replace("_", " ")
DisplayName(k) ==
    CASE k = "suspicious_link" -> "suspicious link"
      [] k = "email_address_present" -> "email address present"
      [] k = "urgent_language" -> "urgent language"
      [] k = "impersonation" -> "impersonation"
      [] k = "credential_request" -> "credential request"

RECURSIVE ActiveFrom(_, _)
ActiveFrom(signals, i) ==
    IF i > Len(SignalKeys) THEN <<>>
    ELSE (IF signals[SignalKeys[i]] THEN <<DisplayName(SignalKeys[i])>> ELSE <<>>)
         \o ActiveFrom(signals, i + 1)

active_signals(signals) == ActiveFrom(signals, 1)

\* sum(phishing_signals.values())
signal_sum(signals) ==
    Cardinality({i \in 1..Len(SignalKeys) : signals[SignalKeys[i]]})


----------------------------------------------------------------------------
(* Text domain: score fusion and verdict mapping (analyze, lines 140-158) *)

Labels == {"Safe", "Suspicious", "Dangerous"}

\* the outcome of vectorizer.transform / model.predict: a label, or an exception
ClassifierRaises == "raises"

ClassifierOutcomes == Labels \cup {ClassifierRaises}

Min(a, b) == IF a <= b THEN a ELSE b

Max(a, b) == IF a >= b THEN a ELSE b

predict_never_raises(ml) == FALSE

\* whether lines 142-143 leave the handler by an exception
predict_raises(ml) == ml = ClassifierRaises

ml_weight(ml) ==
    IF ml = "Dangerous" THEN 3
    ELSE IF ml = "Suspicious" THEN 1
    ELSE 0

phishing_verdict_gt(score) ==
    IF score > 4
    THEN [risk |-> "Dangerous", confidence |-> Min(95, 70 + score * 5)]
    ELSE IF score > 2
    THEN [risk |-> "Suspicious", confidence |-> Min(85, 55 + score * 5)]
    ELSE [risk |-> "Safe", confidence |-> Max(30, 85 - score * 10)]

phishing_verdict(score) ==
    IF score >= 4
    THEN [risk |-> "Dangerous", confidence |-> Min(95, 70 + score * 5)]
    ELSE IF score >= 2
    THEN [risk |-> "Suspicious", confidence |-> Min(85, 55 + score * 5)]
    ELSE [risk |-> "Safe", confidence |-> Max(30, 85 - score * 10)]

recommended_action(risk) ==
    IF risk = "Dangerous"
    THEN "Do not click any links or respond. Report and delete this message immediately."
    ELSE "Verify the sender before responding and avoid sharing sensitive information."

----------------------------------------------------------------------------
(* File domain: byte histograms, entropy, threshold tables *)

Levels == 0..8

RECURSIVE Pow2(_)
Pow2(n) == IF n = 0 THEN 1 ELSE 2 * Pow2(n - 1)

EmptyBody == [a \in Levels |-> 0]

\* j byte values of frequency 2^-a, the other 2^a - j values of that
\* frequency each split in two of frequency 2^-(a+1), and k of those split
\* again in two of frequency 2^-(a+2)
Mix(a, j, k) ==
    [l \in Levels |->
        IF l = a THEN j
        ELSE IF l = a + 1 THEN 2 * (Pow2(a) - j) - k
        ELSE IF l = a + 2 THEN 2 * k
        ELSE 0]

RECURSIVE SumOver(_, _)
SumOver(f, S) ==
    IF S = {} THEN 0
    ELSE LET x == CHOOSE y \in S : TRUE IN f[x] + SumOver(f, S \ {x})

\* len(counts): the number of distinct byte values
distinct_values(file_bytes) == SumOver(file_bytes, Levels)

\* -sum(p * log2(p)) with p = 2^-a for each of the hist[a] values: in 1/256 bit
entropy_256(file_bytes) ==
    SumOver([a \in Levels |-> file_bytes[a] * a * Pow2(8 - a)], Levels)

\* round(x, 2) for x = n/256: to the nearest hundredth, an exact tie to even
round_2(n) ==
    LET q == (25 * n) \div 64
        rem == (25 * n) % 64
    IN IF rem > 32 \/ (rem = 32 /\ q % 2 = 1) THEN q + 1 ELSE q

calculate_entropy(file_bytes) ==
    IF distinct_values(file_bytes) = 0 THEN 0
    ELSE round_2(entropy_256(file_bytes))

vault_verdict_swapped(entropy) ==
    IF entropy > 760 THEN [risk_score |-> 55, verdict |-> "Suspicious"]
    ELSE IF entropy > 660 THEN [risk_score |-> 85, verdict |-> "Malicious"]
    ELSE [risk_score |-> 20, verdict |-> "Safe"]

\* vault_analyze, lines 195-203
vault_verdict(entropy) ==
    IF entropy > 760 THEN [risk_score |-> 85, verdict |-> "Malicious"]
    ELSE IF entropy > 660 THEN [risk_score |-> 55, verdict |-> "Suspicious"]
    ELSE [risk_score |-> 20, verdict |-> "Safe"]

\* scan_file, lines 224-232
scan_verdict(entropy) ==
    IF entropy > 760 THEN [risk_score |-> 90, verdict |-> "Malicious"]
    ELSE IF entropy > 680 THEN [risk_score |-> 60, verdict |-> "Suspicious"]
    ELSE [risk_score |-> 20, verdict |-> "Clean"]

\* request.files.get("file"): None when the part is absent
NoFile == [present |-> FALSE]

\* `not file`: None, or a FileStorage whose filename is empty
file_missing(file) == ~file.present \/ file.filename = ""

----------------------------------------------------------------------------
(* Gemini explanation helpers *)

PhishingFallback ==
    <<"This message shows characteristics commonly associated with phishing attempts.">>

FileFallback == <<"Explanation unavailable.">>

\* what client.models.generate_content does when it comes back: a result with
\* text, a result whose text is None, or an exception
GeminiError == [kind |-> "error", text |-> <<"503 UNAVAILABLE">>]

GeminiNone == [kind |-> "none", text |-> <<>>]

GeminiTexts == {<<"Generated explanation.">>,
                <<" ", "Generated explanation.", " ">>}

GeminiResults == {[kind |-> "text", text |-> t] : t \in GeminiTexts}
                    \cup {GeminiNone}

gemini_explain_phishing_raw(outcome) ==
    IF outcome.kind = "text" THEN strip(outcome.text) ELSE outcome.text

\* lines 104-111: res.text.strip(), or the fallback on any exception
gemini_explain_phishing(outcome) ==
    IF outcome.kind = "text" THEN strip(outcome.text) ELSE PhishingFallback

\* lines 75-82
gemini_explain_file(outcome) ==
    IF outcome.kind = "text" THEN strip(outcome.text) ELSE FileFallback

\* one call of client.models.generate_content on behalf of a request
gemini_call_twice(g) == [calls |-> g.calls + 2, state |-> "pending"]

gemini_call(g) == [calls |-> g.calls + 1, state |-> "pending"]


----------------------------------------------------------------------------
(* Inputs *)

\* "URGENT: verify your bank login now at http://x.co, enter OTP"
ScenarioA == <<"URGENT", ":", " ", "verify", " ", "your", " ", "bank", " ",
               "login", " ", "now", " ", "at", " ", "http://", "x.co", ",",
               " ", "enter", " ", "OTP">>

\* "Hi, lunch at 1pm?"
ScenarioB == <<"Hi", ",", " ", "lunch", " ", "at", " ", "1pm", "?">>

\* " bank@x.co http://x.co URGENT otp ": all five signals
ScenarioFive == <<" ", "bank", "@", "x.co", " ", "http://", "x.co", " ",
                  "URGENT", " ", "otp", " ">>

ShortMessages == UNION {[1..n -> BaseVocab] : n \in 0..MaxWords}

\* request.get_json(): a body without the key, or with a message
NoKeyBody == [other |-> <<>>]

Body(m) == [message |-> m]

AllBodies == {NoKeyBody}
                \cup {Body(m) : m \in ShortMessages
                                      \cup {ScenarioA, ScenarioB, ScenarioFive}}

ServedBodies == {NoKeyBody, Body(<<" ">>), Body(ScenarioB),
                 Body(<<"bank", " ", "otp">>), Body(ScenarioA)}

Upload(name, body) == [present |-> TRUE, filename |-> name, bytes |-> body]

AllFileBodies ==
    {EmptyBody} \cup
    {Mix(a, j, k) : <<a, j, k>> \in
        {t \in (0..7) \X (0..128) \X (0..MaxSplit) :
            /\ t[2] <= Pow2(t[1])
            /\ t[3] <= 2 * (Pow2(t[1]) - t[2])
            /\ (t[3] > 0 => t[1] + 2 <= 8)}}

AllUploads == {NoFile} \cup {Upload(n, b) : n \in {"", "report.pdf"},
                                            b \in AllFileBodies}

ServedUploads == {NoFile, Upload("report.pdf", Mix(6, 19, 0)),
                  Upload("report.pdf", Mix(7, 0, 0))}

\* data.get("message", "")
dict_get(data, key, default) ==
    IF key \in DOMAIN data THEN data[key] ELSE default

----------------------------------------------------------------------------
(* State *)

NoRequest == [endpoint |-> "none"]

NoLocals == [endpoint |-> "none"]

NoResponse == [status |-> 0]

GeminiIdle == [calls |-> 0, state |-> "none"]

NotUsed == [classifier |-> 0, entropy |-> 0]

Init ==
    /\ pc = [r \in Reqs |-> "idle"]
    /\ request = [r \in Reqs |-> NoRequest]
    /\ locals = [r \in Reqs |-> NoLocals]
    /\ response = [r \in Reqs |-> NoResponse]
    /\ gemini = [r \in Reqs |-> GeminiIdle]
    /\ used = [r \in Reqs |-> NotUsed]

\* jsonify({"error": ...}), 400
ErrorResponse(msg) == [status |-> 400, error |-> msg]

\* an exception that leaves the view function: Flask answers 500
ServerError == [status |-> 500]

AnalyzeResponseDegraded(l, explanation) ==
    [status |-> 200,
     risk |-> l.risk,
     confidence |-> IF explanation = PhishingFallback THEN 0 ELSE l.confidence,
     phishing_signals |-> l.phishing_signals,
     ai_explanation |-> explanation,
     recommended_action |-> recommended_action(l.risk)]

\* analyze, lines 167-182 (scan_metadata, a random id and the clock, left out)
AnalyzeResponse(l, explanation) ==
    [status |-> 200,
     risk |-> l.risk,
     confidence |-> l.confidence,
     phishing_signals |-> l.phishing_signals,
     ai_explanation |-> explanation,
     recommended_action |-> recommended_action(l.risk)]

\* vault_analyze, lines 207-211
VaultResponse(l, explanation) ==
    [status |-> 200,
     risk_score |-> l.risk_score,
     verdict |-> l.verdict,
     gemini_explanation |-> explanation]

\* scan_file, lines 236-248 (scan_metadata left out)
ScanResponse(l, explanation) ==
    [status |-> 200,
     file_name |-> l.file_name,
     entropy |-> l.entropy,
     risk_score |-> l.risk_score,
     scan_status |-> "Complete",
     verdict |-> l.verdict,
     gemini_explanation |-> explanation]

----------------------------------------------------------------------------
(* Handlers, up to the call of the explanation service *)

Reject(r, req, resp) ==
    /\ pc' = [pc EXCEPT ![r] = "done"]
    /\ request' = [request EXCEPT ![r] = req]
    /\ response' = [response EXCEPT ![r] = resp]
    /\ UNCHANGED <<locals, gemini>>

CallGemini(r, req, l) ==
    /\ pc' = [pc EXCEPT ![r] = "explaining"]
    /\ request' = [request EXCEPT ![r] = req]
    /\ locals' = [locals EXCEPT ![r] = l]
    /\ gemini' = [gemini EXCEPT ![r] = gemini_call(gemini[r])]
    /\ UNCHANGED response

\* POST /analyze, lines 123-165
Analyze(r, data, ml) ==
    /\ pc[r] = "idle"
    /\ LET req == [endpoint |-> "analyze", data |-> data, ml |-> ml]
           message == strip(dict_get(data, "message", <<>>))
           text == lower(message)
           phishing_signals == extract_signals(text)
           score == signal_sum(phishing_signals) + ml_weight(ml)
           v == phishing_verdict(score)
       IN IF message = <<>>
          THEN /\ Reject(r, req, ErrorResponse("Message is required"))
               /\ UNCHANGED used
          ELSE IF predict_raises(ml)
          THEN /\ Reject(r, req, ServerError)
               /\ used' = [used EXCEPT ![r].classifier = @ + 1]
          ELSE /\ CallGemini(r, req,
                      [endpoint |-> "analyze",
                       message |-> message,
                       phishing_signals |-> phishing_signals,
                       active_signals |-> active_signals(phishing_signals),
                       score |-> score,
                       risk |-> v.risk,
                       confidence |-> v.confidence])
               /\ used' = [used EXCEPT ![r].classifier = @ + 1]

\* POST /vault-analyze, lines 188-205
VaultAnalyze(r, file) ==
    /\ pc[r] = "idle"
    /\ LET req == [endpoint |-> "vault-analyze", file |-> file] IN
       IF file_missing(file)
       THEN /\ Reject(r, req, ErrorResponse("No file received"))
            /\ UNCHANGED used
       ELSE LET entropy == calculate_entropy(file.bytes)
                v == vault_verdict(entropy)
            IN /\ CallGemini(r, req,
                      [endpoint |-> "vault-analyze",
                       entropy |-> entropy,
                       risk_score |-> v.risk_score,
                       verdict |-> v.verdict])
               /\ used' = [used EXCEPT ![r].entropy = @ + 1]

\* POST /scan-file, lines 217-234
ScanFile(r, file) ==
    /\ pc[r] = "idle"
    /\ LET req == [endpoint |-> "scan-file", file |-> file] IN
       IF file_missing(file)
       THEN /\ Reject(r, req, ErrorResponse("No file uploaded"))
            /\ UNCHANGED used
       ELSE LET entropy == calculate_entropy(file.bytes)
                v == scan_verdict(entropy)
            IN /\ CallGemini(r, req,
                      [endpoint |-> "scan-file",
                       file_name |-> file.filename,
                       entropy |-> entropy,
                       risk_score |-> v.risk_score,
                       verdict |-> v.verdict])
               /\ used' = [used EXCEPT ![r].entropy = @ + 1]

----------------------------------------------------------------------------
(* The explanation service answers (or does not), and the handler returns *)

\* the rest of the handler once generate_content has come back or raised
Finish(r, outcome) ==
    /\ pc[r] = "explaining"
    /\ gemini[r].state = "pending"
    /\ pc' = [pc EXCEPT ![r] = "done"]
    /\ gemini' = [gemini EXCEPT ![r].state =
                      IF outcome.kind = "error" THEN "raised" ELSE "returned"]
    /\ response' = [response EXCEPT ![r] =
          CASE locals[r].endpoint = "analyze" ->
                  AnalyzeResponse(locals[r], gemini_explain_phishing(outcome))
            [] locals[r].endpoint = "vault-analyze" ->
                  VaultResponse(locals[r], gemini_explain_file(outcome))
            [] locals[r].endpoint = "scan-file" ->
                  ScanResponse(locals[r], gemini_explain_file(outcome))]
    /\ UNCHANGED <<request, locals, used>>

\* generate_content returns a result object
GeminiReturn(r, res) == Finish(r, res)

\* generate_content raises
GeminiRaise(r) == Finish(r, GeminiError)

\* the service never answers this call; the code passes no timeout, so the
\* handler stays inside generate_content
GeminiStall(r) ==
    /\ pc[r] = "explaining"
    /\ gemini[r].state = "pending"
    /\ gemini' = [gemini EXCEPT ![r].state = "silent"]
    /\ UNCHANGED <<pc, request, locals, response, used>>

----------------------------------------------------------------------------
(* Specifications *)

\* a request arrives only for a handler that has not run yet (the guard of the
\* three handlers, stated before the inputs are drawn)
Step(rs, bodies, uploads) ==
    \E r \in rs :
        \/ /\ pc[r] = "idle"
           /\ \E data \in bodies, ml \in ClassifierOutcomes : Analyze(r, data, ml)
        \/ /\ pc[r] = "idle"
           /\ \E file \in uploads : VaultAnalyze(r, file)
        \/ /\ pc[r] = "idle"
           /\ \E file \in uploads : ScanFile(r, file)
        \/ \E res \in GeminiResults : GeminiReturn(r, res)
        \/ GeminiRaise(r)
        \/ GeminiStall(r)

\* NumRequests requests served concurrently
Next == Step(Reqs, ServedBodies, ServedUploads)

Spec == Init /\ [][Next]_vars

\* one request, over every message of up to MaxWords tokens and every file
ScoringNext == Step({1}, AllBodies, AllUploads)

ScoringSpec == Init /\ [][ScoringNext]_vars

\* a handler thread runs on once the service has answered
FairSpec == Spec /\ \A r \in Reqs :
                       /\ WF_vars(\E res \in GeminiResults : GeminiReturn(r, res))
                       /\ WF_vars(GeminiRaise(r))


----------------------------------------------------------------------------
(* Properties *)

Answered(r) == pc[r] = "done" /\ response[r].status = 200

IsAnalyze(r) == request[r].endpoint = "analyze"

IsFile(r) == request[r].endpoint \in {"vault-analyze", "scan-file"}

TrueSignals(signals) == Cardinality({k \in DOMAIN signals : signals[k]})

LabelWeight(ml) ==
    CASE ml = "Dangerous" -> 3 [] ml = "Suspicious" -> 1 [] ml = "Safe" -> 0

ExpectedPair(s) ==
    CASE s >= 4 -> <<"Dangerous", IF 70 + 5 * s < 95 THEN 70 + 5 * s ELSE 95>>
      [] s >= 2 /\ s <= 3 -> <<"Suspicious", IF 55 + 5 * s < 85 THEN 55 + 5 * s ELSE 85>>
      [] s <= 1 -> <<"Safe", IF 85 - 10 * s > 30 THEN 85 - 10 * s ELSE 30>>

\* C1: for every accepted /analyze message and every classifier label, the
\* fused score is the number of true signals plus the label weight, and the
\* returned risk and confidence follow the threshold table: score >= 4
\* Dangerous min(95, 70+5s); 2..3 Suspicious min(85, 55+5s); <= 1 Safe
\* max(30, 85-10s).
C1_FusedScoreAndVerdict ==
    \A r \in Reqs :
        (IsAnalyze(r) /\ locals[r].endpoint = "analyze") =>
            LET s == TrueSignals(locals[r].phishing_signals)
                        + LabelWeight(request[r].ml)
            IN /\ locals[r].score = s
               /\ <<locals[r].risk, locals[r].confidence>> = ExpectedPair(s)
               /\ Answered(r) =>
                    <<response[r].risk, response[r].confidence>> = ExpectedPair(s)

\* an answered request whose score sits on the Dangerous threshold
C1_Witness ==
    \E r \in Reqs :
        /\ IsAnalyze(r) /\ Answered(r)
        /\ locals[r].score = 4
        /\ response[r].risk = "Dangerous" /\ response[r].confidence = 90

\* C2: of the requests that reach the explanation step within one cooldown
\* window (every request of a run is within one window), exactly one calls
\* the service and the others get the fallback without calling it.
C2_OneLiveCallPerWindow ==
    LET reached == {r \in Reqs : locals[r].endpoint # "none"}
        live == {r \in Reqs : gemini[r].calls > 0}
    IN reached # {} => Cardinality(live) = 1

\* C3: when the explanation call raises, the request still completes with
\* status 200, the verdict and score/confidence computed before the call,
\* and the fixed fallback string as explanation.
C3_ExplanationFailureDegrades ==
    \A r \in Reqs :
        gemini[r].state = "raised" =>
            /\ Answered(r)
            /\ "error" \notin DOMAIN response[r]
            /\ IsAnalyze(r) =>
                  /\ response[r].risk = locals[r].risk
                  /\ response[r].confidence = locals[r].confidence
                  /\ response[r].ai_explanation = PhishingFallback
            /\ IsFile(r) =>
                  /\ response[r].verdict = locals[r].verdict
                  /\ response[r].risk_score = locals[r].risk_score
                  /\ response[r].gemini_explanation = FileFallback

\* an /analyze request and a file request whose explanation call raised
C3_Witness ==
    /\ \E r \in Reqs : IsAnalyze(r) /\ gemini[r].state = "raised" /\ Answered(r)
    /\ \E r \in Reqs : IsFile(r) /\ gemini[r].state = "raised" /\ Answered(r)

MissingInput(r) ==
    \/ /\ IsAnalyze(r)
       /\ \/ "message" \notin DOMAIN request[r].data
          \/ \A i \in 1..Len(request[r].data.message) :
                request[r].data.message[i] = " "
    \/ IsFile(r) /\ ~request[r].file.present

VerdictFields == {"risk", "confidence", "verdict", "risk_score",
                  "phishing_signals"}

\* C4: a request with missing required input (empty or whitespace-only
\* message, no file) is rejected with an error response before any scoring:
\* no classifier call, no entropy computation, no explanation call, and no
\* verdict, score or confidence in the response.
C4_MissingInputRejected ==
    \A r \in Reqs :
        MissingInput(r) =>
            /\ pc[r] = "done"
            /\ response[r].status = 400
            /\ "error" \in DOMAIN response[r]
            /\ DOMAIN response[r] \cap VerdictFields = {}
            /\ used[r].classifier = 0
            /\ used[r].entropy = 0
            /\ gemini[r].calls = 0
            /\ locals[r] = NoLocals

\* a whitespace-only message of two tokens was rejected
C4_Witness ==
    \E r \in Reqs :
        /\ IsAnalyze(r) /\ MissingInput(r)
        /\ "message" \in DOMAIN request[r].data
        /\ Len(request[r].data.message) = 2
        /\ response[r].status = 400

\* C5: when the classifier throws during /analyze the request fails: no
\* risk or confidence is returned and the explanation service is not called.
C5_ClassifierFailureFailsRequest ==
    \A r \in Reqs :
        (IsAnalyze(r) /\ request[r].ml = ClassifierRaises /\ ~MissingInput(r)) =>
            /\ pc[r] = "done"
            /\ response[r].status = 500
            /\ DOMAIN response[r] \cap VerdictFields = {}
            /\ gemini[r].calls = 0

\* the classifier was invoked on a message with signals and threw
C5_Witness ==
    \E r \in Reqs :
        /\ IsAnalyze(r) /\ request[r].ml = ClassifierRaises
        /\ used[r].classifier = 1
        /\ TrueSignals(extract_signals(lower(strip(request[r].data.message)))) >= 2
        /\ response[r].status = 500

TierRank(v) ==
    CASE v \in {"Safe", "Clean"} -> 0
      [] v = "Suspicious" -> 1
      [] v \in {"Dangerous", "Malicious"} -> 2

ScoreRange == 0..8

EntropyRange == 0..800

\* C6: within each threshold table the verdict is monotonic: a request's
\* tier is no higher than the tier of any larger score (entropy) and no lower
\* than that of any smaller one, and likewise the file risk_score.
C6_VerdictMonotonic ==
    \A r \in Reqs :
        /\ locals[r].endpoint = "analyze" =>
              \A s2 \in ScoreRange :
                 /\ locals[r].score <= s2 =>
                       TierRank(locals[r].risk) <= TierRank(phishing_verdict(s2).risk)
                 /\ s2 <= locals[r].score =>
                       TierRank(phishing_verdict(s2).risk) <= TierRank(locals[r].risk)
        /\ locals[r].endpoint = "vault-analyze" =>
              \A e2 \in EntropyRange :
                 LET v2 == vault_verdict(e2) IN
                 /\ locals[r].entropy <= e2 =>
                       /\ TierRank(locals[r].verdict) <= TierRank(v2.verdict)
                       /\ locals[r].risk_score <= v2.risk_score
                 /\ e2 <= locals[r].entropy =>
                       /\ TierRank(v2.verdict) <= TierRank(locals[r].verdict)
                       /\ v2.risk_score <= locals[r].risk_score
        /\ locals[r].endpoint = "scan-file" =>
              \A e2 \in EntropyRange :
                 LET v2 == scan_verdict(e2) IN
                 /\ locals[r].entropy <= e2 =>
                       /\ TierRank(locals[r].verdict) <= TierRank(v2.verdict)
                       /\ locals[r].risk_score <= v2.risk_score
                 /\ e2 <= locals[r].entropy =>
                       /\ TierRank(v2.verdict) <= TierRank(locals[r].verdict)
                       /\ v2.risk_score <= locals[r].risk_score

\* a /vault-analyze file whose entropy sits on the 7.6 threshold
C6_Witness ==
    \E r \in Reqs :
        /\ locals[r].endpoint = "vault-analyze"
        /\ locals[r].entropy = 760
        /\ locals[r].verdict = "Suspicious"

\* C7: for the same file, /vault-analyze and /scan-file return the same
\* verdict tier (Safe and Clean being the same tier) and the same risk_score.
C7_CanonicalFileTable ==
    \A r1, r2 \in Reqs :
        (/\ Answered(r1) /\ Answered(r2)
         /\ request[r1].endpoint = "vault-analyze"
         /\ request[r2].endpoint = "scan-file"
         /\ request[r1].file = request[r2].file) =>
            /\ TierRank(response[r1].verdict) = TierRank(response[r2].verdict)
            /\ response[r1].risk_score = response[r2].risk_score

\* C8: every request that passed validation eventually returns its
\* response, even when the explanation service never answers.
C8_EventuallyResponds ==
    \A r \in Reqs : (pc[r] = "explaining") ~> (pc[r] = "done")

ScoringFields(r) ==
    IF IsAnalyze(r)
    THEN <<response[r].risk, response[r].confidence, response[r].phishing_signals>>
    ELSE <<response[r].verdict, response[r].risk_score>>

\* C9: two answered runs of the same endpoint with the same input (and the
\* same classifier label) carry identical risk, confidence and signals, or
\* verdict and risk_score, whatever the explanation service did in each.
C9_ScoringIndependentOfExplanation ==
    \A r1, r2 \in Reqs :
        (Answered(r1) /\ Answered(r2) /\ request[r1] = request[r2]) =>
            ScoringFields(r1) = ScoringFields(r2)

\* the same message and label twice, the service failing in one run only
C9_Witness ==
    \E r1, r2 \in Reqs :
        /\ r1 # r2 /\ IsAnalyze(r1) /\ request[r1] = request[r2]
        /\ Answered(r1) /\ Answered(r2)
        /\ gemini[r1].state = "raised" /\ gemini[r2].state = "returned"
        /\ response[r1].ai_explanation # response[r2].ai_explanation

\* C10: in every request the explanation service is called at most once,
\* only once the verdict and score/confidence are fixed, and a call is never
\* repeated: after the call the request's verdict no longer changes and no
\* further call is made.
C10_OneCallAfterVerdict ==
    /\ [](\A r \in Reqs :
            /\ gemini[r].calls <= 1
            /\ gemini[r].calls > 0 => locals[r].endpoint # "none")
    /\ [][\A r \in Reqs :
            gemini[r].calls > 0 =>
                /\ locals'[r] = locals[r]
                /\ gemini'[r].calls = gemini[r].calls]_vars

\* a request whose only call raised and that then returned with the fallback
C10_Witness ==
    \E r \in Reqs :
        /\ gemini[r].state = "raised" /\ gemini[r].calls = 1
        /\ Answered(r)
        /\ IsFile(r) /\ response[r].gemini_explanation = FileFallback

=============================================================================
